---- MODULE Spec2Model ----
(***************************************************************************)
(* Pagination engine of the Tiptap paginated editor.                       *)
(*                                                                         *)
(* Lengths are integers in hundredths of a CSS pixel, so that the usable   *)
(* content height 11.69in * 96 - 2 * 96 = 930.24px is the integer 93024.   *)
(* The rendered surface (the ProseMirror DOM element) is a sequence of     *)
(* top-level nodes laid out top to bottom; a node is a leaf block (p, h1,  *)
(* pre, hr) or a container (ul, ol, blockquote, table) whose cells sit     *)
(* side by side and each stack nested paragraphs.                          *)
(*                                                                         *)
(* Spec is one call of calculatePagination on a surface; SchedSpec is the  *)
(* usePagination hook that debounces the editor's signals and runs the     *)
(* calculation in an animation frame, FairSchedSpec adds the host's        *)
(* fairness.  The debounce window is not timed: an armed timer fires at    *)
(* any later step, unless it is cleared first.                             *)
(***************************************************************************)
EXTENDS Integers, Sequences, FiniteSets, TLC

VARIABLES editorElement, contentHeightPerPage, pc, blocks, placed, result,
          lifecycle, debounceTimerRef, rafIdRef, timers, frames, pagination,
          signals, manualCalls, bursts, passes, publications, settledApart,
          cancelled, activePageIndex, caretOffset

\* the state of one call of calculatePagination
calcVars == <<editorElement, contentHeightPerPage, pc, blocks, placed, result>>

\* the state of the usePagination hook and of the host's timer and frame
\* queues, with the bookkeeping of the model (signals .. cancelled)
hookVars == <<lifecycle, debounceTimerRef, rafIdRef, timers, frames,
              pagination, signals, manualCalls, bursts, passes, publications,
              settledApart, cancelled>>

\* the state of the PaginatedEditor component: its activePageIndex, and the
\* content offset of the top of the caret (editor.state.selection.from)
viewVars == <<activePageIndex, caretOffset>>

vars == <<calcVars, hookVars, viewVars>>

----------------------------------------------------------------------------
(* Bounds of the model *)

\* most top-level nodes on the surface
MaxBlocks == 3
\* most containers (list, blockquote, table) among the top-level nodes
MaxContainers == 1
\* rendered heights are multiples of HeightUnit (470px: two units overflow
\* the default usable height, one unit does not)
HeightUnit == 47000
\* leaf heights are 0..MaxUnits units
MaxUnits == 2
\* usable heights passed by a caller: up to MaxUsableUnits units (and zero
\* or negative, for margins that leave no room on the page)
MaxUsableUnits == 2
\* most update and resize events delivered to the hook's listeners
MaxSignals == 3
\* most calls of the recalculate function the hook returns
MaxManualCalls == 1
\* timer and animation frame handles are 1..MaxHandles
MaxHandles == 3
\* height, in units, of the tallest paragraph the paginated editor shows
TallUnits == 4

----------------------------------------------------------------------------
(* constants.ts, in hundredths of a pixel *)

CSS_PIXELS_PER_INCH == 96
\* 11.69 inches, in hundredths of an inch
PAGE_HEIGHT_INCHES == 1169
PAGE_MARGIN_INCHES == 1
PAGE_HEIGHT_PX == PAGE_HEIGHT_INCHES * CSS_PIXELS_PER_INCH
PAGE_MARGIN_PX == PAGE_MARGIN_INCHES * CSS_PIXELS_PER_INCH * 100
CONTENT_HEIGHT_PX == PAGE_HEIGHT_PX - (PAGE_MARGIN_PX * 2)
PAGE_GAP_PX == 24 * 100

----------------------------------------------------------------------------
(* The rendered surface *)

RECURSIVE SumSeq(_)
SumSeq(s) == IF s = <<>> THEN 0 ELSE Head(s) + SumSeq(Tail(s))

Max(a, b) == IF a >= b THEN a ELSE b
Min(a, b) == IF a <= b THEN a ELSE b

LeafHeights == {k * HeightUnit : k \in 0..MaxUnits}
\* the vertical margin between top-level blocks and the bottom padding of
\* the surface: none, or one unit
Spaces == {0, HeightUnit}
\* the viewport y of the surface's top edge: the view is scrolled one unit
RectTop == -HeightUnit
UsableHeights == {k * HeightUnit : k \in (-1)..MaxUsableUnits}
                   \cup {CONTENT_HEIGHT_PX}

\* the containers: per cell, the heights of the paragraphs stacked in it.
\* A list (or blockquote) of two paragraphs, a table row of two cells with
\* one paragraph each, a table row whose first cell holds two paragraphs
CellLayouts ==
  { << <<HeightUnit, HeightUnit>> >>,
    << <<HeightUnit>>, <<HeightUnit>> >>,
    << <<HeightUnit, HeightUnit>>, <<HeightUnit>> >> }

\* the computed style of an element that no rule hides
VisibleStyle == [display |-> "block", visibility |-> "visible"]

\* a top-level node: a leaf block of height h (cells empty), or a container
LeafNodes == {[h |-> x, cells |-> <<>>, style |-> VisibleStyle] : x \in LeafHeights}
ContainerNodes == {[h |-> 0, cells |-> c, style |-> VisibleStyle] : c \in CellLayouts}
\* a paragraph styled visibility: hidden; it keeps its box in the layout
HiddenNodes ==
  {[h |-> HeightUnit, cells |-> <<>>,
    style |-> [display |-> "block", visibility |-> "hidden"]]}
Nodes == LeafNodes \cup ContainerNodes \cup HiddenNodes

\* editor.view.dom before the editor is mounted
NullElement == [present |-> FALSE, nodes |-> <<>>, margin |-> 0,
                padding |-> 0, rectTop |-> 0]

IsContainer(n) == n.cells # <<>>

RECURSIVE TallestCell(_)
TallestCell(cells) ==
  IF cells = <<>> THEN 0
  ELSE Max(SumSeq(Head(cells)), TallestCell(Tail(cells)))

\* rendered height of a top-level node: a container is as tall as its
\* tallest cell
NodeHeight(n) == IF IsContainer(n) THEN TallestCell(n.cells) ELSE n.h

\* boxes of the paragraphs stacked in one cell, from the viewport y `top'
RECURSIVE StackRects(_, _)
StackRects(hs, top) ==
  IF hs = <<>> THEN <<>>
  ELSE <<[top |-> top, height |-> Head(hs), nested |-> TRUE,
           style |-> VisibleStyle]>>
         \o StackRects(Tail(hs), top + Head(hs))

\* the cells of one row all start at the top of the container
RECURSIVE CellRects(_, _)
CellRects(cells, top) ==
  IF cells = <<>> THEN <<>>
  ELSE StackRects(Head(cells), top) \o CellRects(Tail(cells), top)

\* a node's own box followed by the boxes of its descendants
NodeRects(n, top) ==
  <<[top |-> top, height |-> NodeHeight(n), nested |-> FALSE,
     style |-> n.style]>>
    \o CellRects(n.cells, top)

RECURSIVE LayoutRects(_, _, _)
LayoutRects(nodes, top, margin) ==
  IF nodes = <<>> THEN <<>>
  ELSE NodeRects(Head(nodes), top)
         \o LayoutRects(Tail(nodes),
                        top + NodeHeight(Head(nodes)) + margin, margin)

RECURSIVE ContentBottom(_, _)
ContentBottom(nodes, margin) ==
  IF nodes = <<>> THEN 0
  ELSE NodeHeight(Head(nodes))
         + (IF Tail(nodes) = <<>> THEN 0 ELSE margin)
         + ContentBottom(Tail(nodes), margin)

\* editorElement.getBoundingClientRect(): the surface's box in the viewport
getBoundingClientRect(el) == [top |-> el.rectTop]

\* editorElement.querySelectorAll(BLOCK_SELECTORS): every descendant that
\* matches a block selector, in document order, with its viewport box
querySelectorAll(el) == LayoutRects(el.nodes, el.rectTop, el.margin)

\* editorElement.scrollHeight
scrollHeight(el) == ContentBottom(el.nodes, el.margin) + el.padding

----------------------------------------------------------------------------
(* measure.ts *)

\* Number.prototype.toFixed(0) of a non-negative length: whole pixels
toFixed0(x) == (x + 50) \div 100

measureBlocks(el) ==
  LET editorRect == getBoundingClientRect(el)
      blockElements == querySelectorAll(el)
  IN  [i \in 1..Len(blockElements) |->
         LET rect == blockElements[i]
             offsetTop == rect.top - editorRect.top
         IN  [element |-> i,
              height |-> rect.height,
              offsetTop |-> offsetTop,
              id |-> <<i - 1, toFixed0(offsetTop)>>]]

getTotalContentHeight(el) == scrollHeight(el)

\* window.getComputedStyle(element) of a queried element
getComputedStyle(element) == element.style

\* exported by measure.ts; measureBlocks does not call it
isElementVisible(element) ==
  LET style == getComputedStyle(element)
  IN  style.display # "none" /\ style.visibility # "hidden"

----------------------------------------------------------------------------
(* calculator.ts *)

\* slip: the placeholder page is numbered from 0
createEmptyPage_ZeroBased(pageNumber) ==
  [pageNumber |-> pageNumber - 1, startOffset |-> 0, endOffset |-> 0,
   contentHeight |-> 0]

createEmptyPage(pageNumber) ==
  [pageNumber |-> pageNumber, startOffset |-> 0, endOffset |-> 0,
   contentHeight |-> 0]

\* the result of both early returns
EmptyResult ==
  [pages |-> <<createEmptyPage(1)>>, totalPages |-> 1,
   totalContentHeight |-> 0]

\* the locals of the scan before the loop; placed[k] is the number of the
\* page that was current when block k was added (bookkeeping of the model)
ScanInit ==
  [pages |-> <<>>, currentPageNumber |-> 1, currentPageStartOffset |-> 0,
   accumulatedHeight |-> 0, placed |-> <<>>]

\* slip: >= in place of >
ExceedsPage_AtLeast(accumulatedHeight, height, usable) ==
  accumulatedHeight + height >= usable /\ accumulatedHeight > 0

\* slip: the guard accumulatedHeight > 0 is missing
ExceedsPage_Unguarded(accumulatedHeight, height, usable) ==
  accumulatedHeight + height > usable

\* slip: the block's own height is compared, not the accumulated height
ExceedsPage_BlockOnly(accumulatedHeight, height, usable) ==
  height > usable /\ accumulatedHeight > 0

\* slip: no page is closed when the usable height is not positive
ExceedsPage_PositiveUsable(accumulatedHeight, height, usable) ==
  accumulatedHeight + height > usable /\ accumulatedHeight > 0 /\ usable > 0

\* slip: a page is closed only once it is already over the usable height
ExceedsPage_Overfull(accumulatedHeight, height, usable) ==
  accumulatedHeight > usable /\ accumulatedHeight > 0

\* slip: a page is closed at every block that finds content on the page
ExceedsPage_EveryBlock(accumulatedHeight, height, usable) ==
  accumulatedHeight > 0

\* the condition of the loop's if
ExceedsPage(accumulatedHeight, height, usable) ==
  accumulatedHeight + height > usable /\ accumulatedHeight > 0

\* slip: currentPageNumber++ is missing
FinalizePage_SameNumber(st, block) ==
  [st EXCEPT !.pages = Append(@, [pageNumber |-> st.currentPageNumber,
                                  startOffset |-> st.currentPageStartOffset,
                                  endOffset |-> block.offsetTop,
                                  contentHeight |-> st.accumulatedHeight]),
             !.currentPageStartOffset = block.offsetTop,
             !.accumulatedHeight = 0]

\* slip: accumulatedHeight is not reset for the new page
FinalizePage_KeepsHeight(st, block) ==
  [st EXCEPT !.pages = Append(@, [pageNumber |-> st.currentPageNumber,
                                  startOffset |-> st.currentPageStartOffset,
                                  endOffset |-> block.offsetTop,
                                  contentHeight |-> st.accumulatedHeight]),
             !.currentPageNumber = @ + 1,
             !.currentPageStartOffset = block.offsetTop]

\* the body of the if: finalize the current page, start a new one
FinalizePage(st, block) ==
  [st EXCEPT !.pages = Append(@, [pageNumber |-> st.currentPageNumber,
                                  startOffset |-> st.currentPageStartOffset,
                                  endOffset |-> block.offsetTop,
                                  contentHeight |-> st.accumulatedHeight]),
             !.currentPageNumber = @ + 1,
             !.currentPageStartOffset = block.offsetTop,
             !.accumulatedHeight = 0]

\* accumulatedHeight += block.height
AddBlock(st, block) ==
  [st EXCEPT !.accumulatedHeight = @ + block.height,
             !.placed = Append(@, st.currentPageNumber)]

\* one iteration of the loop
ProcessBlock(st, block, usable) ==
  AddBlock(IF ExceedsPage(st.accumulatedHeight, block.height, usable)
           THEN FinalizePage(st, block)
           ELSE st,
           block)

\* the whole loop
RECURSIVE ScanBlocks(_, _, _)
ScanBlocks(st, bs, usable) ==
  IF bs = <<>> THEN st
  ELSE ScanBlocks(ProcessBlock(st, Head(bs), usable), Tail(bs), usable)

\* slip: the final page ends where its accumulated content ends
FinalPage_EndsAtContent(st, totalHeight) ==
  [pageNumber |-> st.currentPageNumber,
   startOffset |-> st.currentPageStartOffset,
   endOffset |-> st.currentPageStartOffset + st.accumulatedHeight,
   contentHeight |-> st.accumulatedHeight]

\* the final page pushed after the loop
FinalPage(st, totalHeight) ==
  [pageNumber |-> st.currentPageNumber,
   startOffset |-> st.currentPageStartOffset,
   endOffset |-> totalHeight,
   contentHeight |-> st.accumulatedHeight]

\* TRUE when the call returns before measuring
ReturnsEarly(el) == ~el.present \/ getTotalContentHeight(el) <= 0

\* the blocks the call measures (none on an early return)
MeasuredBy(el) == IF ReturnsEarly(el) THEN <<>> ELSE measureBlocks(el)

\* the locals after the loop
ScanOf(el, usable) == ScanBlocks(ScanInit, MeasuredBy(el), usable)

calculatePagination(el, usable) ==
  IF ~el.present THEN EmptyResult
  ELSE LET totalHeight == getTotalContentHeight(el)
       IN  IF totalHeight <= 0 THEN EmptyResult
           ELSE LET st == ScanOf(el, usable)
                    pushed == Append(st.pages, FinalPage(st, totalHeight))
                    pages == IF Len(pushed) = 0
                             THEN <<createEmptyPage(1)>>
                             ELSE pushed
                IN  [pages |-> pages, totalPages |-> Len(pages),
                     totalContentHeight |-> totalHeight]

\* the first page, in order, whose [startOffset, endOffset) holds the
\* offset; the last page's number when no page does
getPageAtOffset(offset, pages) ==
  LET holding == {i \in 1..Len(pages) :
                    offset >= pages[i].startOffset /\ offset < pages[i].endOffset}
  IN  IF holding # {}
      THEN pages[CHOOSE i \in holding : \A j \in holding : i <= j].pageNumber
      ELSE IF Len(pages) > 0 THEN pages[Len(pages)].pageNumber ELSE 1

----------------------------------------------------------------------------
(* The specification: a surface is mounted and filled, then one call of    *)
(* calculatePagination(editorElement, contentHeightPerPage) is made.       *)

NoResult == [pages |-> <<>>, totalPages |-> 0, totalContentHeight |-> 0]

\* useState's initial value
Bootstrap ==
  [pages |-> <<[pageNumber |-> 1, startOffset |-> 0, endOffset |-> 0,
                contentHeight |-> 0]>>,
   totalPages |-> 1, totalContentHeight |-> 0]

\* useRef(null)
Null == 0

\* the hook after its first render: editor is null, nothing is scheduled
HookInit ==
  /\ lifecycle = "unattached"
  /\ debounceTimerRef = Null
  /\ rafIdRef = Null
  /\ timers = {}
  /\ frames = {}
  /\ pagination = Bootstrap
  /\ signals = 0
  /\ manualCalls = 0
  /\ bursts = 0
  /\ passes = 0
  /\ publications = 0
  /\ settledApart = TRUE
  /\ cancelled = [timers |-> 0, frames |-> 0]

\* useState(0); the caret is at the start of the document
ViewerInit ==
  /\ activePageIndex = 0
  /\ caretOffset = 0

Init ==
  /\ editorElement = NullElement
  /\ contentHeightPerPage = CONTENT_HEIGHT_PX
  /\ pc = "input"
  /\ blocks = <<>>
  /\ placed = <<>>
  /\ result = NoResult
  /\ HookInit
  /\ ViewerInit

\* the editor view is created: editor.view.dom exists, still without content
Mount(margin, padding) ==
  /\ pc = "input"
  /\ ~editorElement.present
  /\ editorElement' = [present |-> TRUE, nodes |-> <<>>, margin |-> margin,
                       padding |-> padding, rectTop |-> RectTop]
  /\ UNCHANGED <<viewVars, contentHeightPerPage, pc, blocks, placed, result, hookVars>>

NumContainers(nodes) == Cardinality({i \in 1..Len(nodes) : IsContainer(nodes[i])})

\* the document gets one more top-level node (initial content or an edit)
AppendNode(n) ==
  /\ pc = "input"
  /\ editorElement.present
  /\ Len(editorElement.nodes) < MaxBlocks
  /\ IsContainer(n) => NumContainers(editorElement.nodes) < MaxContainers
  /\ editorElement' = [editorElement EXCEPT !.nodes = Append(@, n)]
  /\ UNCHANGED <<viewVars, contentHeightPerPage, pc, blocks, placed, result, hookVars>>

\* result = calculatePagination(editorElement, usable); the second argument
\* defaults to CONTENT_HEIGHT_PX
Calculate(usable) ==
  /\ pc = "input"
  /\ pc' = "returned"
  /\ contentHeightPerPage' = usable
  /\ blocks' = MeasuredBy(editorElement)
  /\ placed' = ScanOf(editorElement, usable).placed
  /\ result' = calculatePagination(editorElement, usable)
  /\ UNCHANGED <<viewVars, editorElement, hookVars>>

Next ==
  \/ \E margin \in Spaces, padding \in Spaces : Mount(margin, padding)
  \/ \E n \in Nodes : AppendNode(n)
  \/ \E usable \in UsableHeights : Calculate(usable)

Spec == Init /\ [][Next]_vars

----------------------------------------------------------------------------
(* usePagination: the hook that schedules calculatePagination.  The host   *)
(* keeps the pending timeouts (timers) and the pending animation frame     *)
(* requests (frames); the hook keeps the handle of the last one it made in *)
(* debounceTimerRef and rafIdRef and never resets them.                    *)

Handles == 1..MaxHandles

\* the documents the editor shows in turn: one paragraph (one page), two
\* paragraphs (two pages), a list of two paragraphs
SchedDocs ==
  { << [h |-> HeightUnit, cells |-> <<>>, style |-> VisibleStyle] >>,
    << [h |-> 2 * HeightUnit, cells |-> <<>>, style |-> VisibleStyle],
       [h |-> HeightUnit, cells |-> <<>>, style |-> VisibleStyle] >>,
    << [h |-> 0, cells |-> << <<HeightUnit, HeightUnit>> >>,
        style |-> VisibleStyle] >> }

\* editor.view.dom showing the document
Surface(nodes) ==
  [present |-> TRUE, nodes |-> nodes, margin |-> 0, padding |-> 0,
   rectTop |-> RectTop]

\* editor.view.dom of a destroyed editor: out of the page, nothing is laid
\* out and scrollHeight is 0
Detached(el) == [el EXCEPT !.nodes = <<>>, !.padding = 0]

\* a handle the host has not handed out among the ones still known
NewHandle(used) ==
  CHOOSE h \in Handles \ used : \A g \in Handles \ used : h <= g

TimerIds(pending) == {t.id : t \in pending}

\* the host can hand out a timer (a frame) handle
CanSetTimeout == Handles \ (TimerIds(timers) \cup {debounceTimerRef}) # {}
CanRequestFrame == Handles \ (frames \cup {rafIdRef}) # {}

\* clearing a handle that is not pending does nothing
clearTimeout(pending, id) == {t \in pending : t.id # id}

cancelAnimationFrame(pending, id) == pending \ {id}

\* slip: the pending frame is cancelled and no frame is requested
performCalculation_NoRequest(fr, dom) ==
  IF ~dom THEN fr
  ELSE [fr EXCEPT !.frames = IF fr.rafIdRef # Null
                             THEN cancelAnimationFrame(fr.frames, fr.rafIdRef)
                             ELSE fr.frames]

\* slip: the frame request pending from an earlier call is not cancelled
performCalculation_KeepsRequest(fr, dom) ==
  IF ~dom THEN fr
  ELSE LET id == NewHandle(fr.frames \cup {fr.rafIdRef})
       IN  [frames |-> fr.frames \cup {id}, rafIdRef |-> id]

\* performCalculation up to the frame request; fr holds frames and rafIdRef,
\* dom is the truth of editor?.view?.dom
performCalculation(fr, dom) ==
  IF ~dom THEN fr
  ELSE LET pending == IF fr.rafIdRef # Null
                      THEN cancelAnimationFrame(fr.frames, fr.rafIdRef)
                      ELSE fr.frames
           id == NewHandle(pending \cup {fr.rafIdRef})
       IN  [frames |-> pending \cup {id}, rafIdRef |-> id]

\* slip: the pending debounce timer is not cleared
recalculate_KeepsTimer(tm, editor) ==
  LET id == NewHandle(TimerIds(tm.timers) \cup {tm.debounceTimerRef})
  IN  [timers |-> tm.timers \cup {[id |-> id, editor |-> editor]},
       debounceTimerRef |-> id]

\* recalculate; tm holds timers and debounceTimerRef, editor is the editor
\* the closure captured ("null" before the editor exists)
recalculate(tm, editor) ==
  LET pending == IF tm.debounceTimerRef # Null
                 THEN clearTimeout(tm.timers, tm.debounceTimerRef)
                 ELSE tm.timers
      id == NewHandle(TimerIds(pending) \cup {tm.debounceTimerRef})
  IN  [timers |-> pending \cup {[id |-> id, editor |-> editor]},
       debounceTimerRef |-> id]

\* slip: only the pages of the result are stored
setPagination_PagesOnly(prev, res, mounted) ==
  IF mounted THEN [prev EXCEPT !.pages = res.pages] ELSE prev

\* setPagination(result); React drops the update of an unmounted component
setPagination(prev, res, mounted) == IF mounted THEN res ELSE prev

\* the values editor?.view?.dom can have for a closure over `editor': none
\* for a null editor, the element while the editor lives, and either after
\* the editor was destroyed (the view of a destroyed editor is library
\* version dependent)
ViewDom(editor) ==
  IF editor = "null" THEN {FALSE}
  ELSE IF lifecycle = "attached" THEN {TRUE} ELSE BOOLEAN

\* the editor the current render's callbacks close over
CurrentEditor == IF lifecycle = "unattached" THEN "null" ELSE "ready"

SchedInit ==
  /\ editorElement = NullElement
  /\ contentHeightPerPage = CONTENT_HEIGHT_PX
  /\ pc = "scheduler"
  /\ blocks = <<>>
  /\ placed = <<>>
  /\ result = NoResult
  /\ HookInit
  /\ ViewerInit

\* bookkeeping of a call of recalculate: a burst starts when no debounce
\* timer is pending; settledApart holds while every burst started with the
\* hook attached and no frame request pending
CountCall ==
  /\ bursts' = IF timers = {} THEN bursts + 1 ELSE bursts
  /\ settledApart' = (settledApart /\ lifecycle = "attached" /\ frames = {})

\* slip: the initial calculation goes through the debounce
Attach_Debounced(nodes) ==
  /\ lifecycle = "unattached"
  /\ CanSetTimeout
  /\ lifecycle' = "attached"
  /\ editorElement' = Surface(nodes)
  /\ LET tm == recalculate([timers |-> timers,
                            debounceTimerRef |-> debounceTimerRef], "ready")
     IN  timers' = tm.timers /\ debounceTimerRef' = tm.debounceTimerRef
  /\ UNCHANGED <<viewVars, contentHeightPerPage, pc, blocks, placed, result, frames,
                 rafIdRef, pagination, signals, manualCalls, bursts, passes,
                 publications, settledApart, cancelled>>

\* useEditor returns the editor and the effect runs: the initial
\* performCalculation(), then the listeners are subscribed
Attach(nodes) ==
  /\ lifecycle = "unattached"
  /\ CanRequestFrame
  /\ lifecycle' = "attached"
  /\ editorElement' = Surface(nodes)
  /\ LET fr == performCalculation([frames |-> frames, rafIdRef |-> rafIdRef],
                                  TRUE)
     IN  frames' = fr.frames /\ rafIdRef' = fr.rafIdRef
  /\ UNCHANGED <<viewVars, contentHeightPerPage, pc, blocks, placed, result, timers,
                 debounceTimerRef, pagination, signals, manualCalls, bursts,
                 passes, publications, settledApart, cancelled>>

\* the editor emits 'update' (or 'create') with the document now rendered
\* as `nodes': updateHandler calls recalculate()
EditorUpdate(nodes) ==
  /\ lifecycle = "attached"
  /\ signals < MaxSignals
  /\ CanSetTimeout
  /\ editorElement' = [editorElement EXCEPT !.nodes = nodes]
  /\ LET tm == recalculate([timers |-> timers,
                            debounceTimerRef |-> debounceTimerRef], "ready")
     IN  timers' = tm.timers /\ debounceTimerRef' = tm.debounceTimerRef
  /\ signals' = signals + 1
  /\ CountCall
  /\ UNCHANGED <<viewVars, contentHeightPerPage, pc, blocks, placed, result, lifecycle,
                 frames, rafIdRef, pagination, manualCalls, passes,
                 publications, cancelled>>

\* the window emits 'resize': resizeHandler calls recalculate()
WindowResize ==
  /\ lifecycle = "attached"
  /\ signals < MaxSignals
  /\ CanSetTimeout
  /\ LET tm == recalculate([timers |-> timers,
                            debounceTimerRef |-> debounceTimerRef], "ready")
     IN  timers' = tm.timers /\ debounceTimerRef' = tm.debounceTimerRef
  /\ signals' = signals + 1
  /\ CountCall
  /\ UNCHANGED <<viewVars, calcVars, lifecycle, frames, rafIdRef, pagination,
                 manualCalls, passes, publications, cancelled>>

\* slip: the returned function is performCalculation
ManualRecalculate_Immediate ==
  /\ manualCalls < MaxManualCalls
  /\ CanRequestFrame
  /\ \E dom \in ViewDom(CurrentEditor) :
       LET fr == performCalculation([frames |-> frames,
                                     rafIdRef |-> rafIdRef], dom)
       IN  frames' = fr.frames /\ rafIdRef' = fr.rafIdRef
  /\ manualCalls' = manualCalls + 1
  /\ CountCall
  /\ UNCHANGED <<viewVars, calcVars, lifecycle, timers, debounceTimerRef, pagination,
                 signals, passes, publications, cancelled>>

\* the consumer calls the recalculate function the hook returned, at any
\* time of the hook's life
ManualRecalculate ==
  /\ manualCalls < MaxManualCalls
  /\ CanSetTimeout
  /\ LET tm == recalculate([timers |-> timers,
                            debounceTimerRef |-> debounceTimerRef],
                           CurrentEditor)
     IN  timers' = tm.timers /\ debounceTimerRef' = tm.debounceTimerRef
  /\ manualCalls' = manualCalls + 1
  /\ CountCall
  /\ UNCHANGED <<viewVars, calcVars, lifecycle, frames, rafIdRef, pagination, signals,
                 passes, publications, cancelled>>

\* the debounce timer t expires: its callback calls performCalculation()
TimerFires(t) ==
  /\ t \in timers
  /\ CanRequestFrame
  /\ timers' = timers \ {t}
  /\ \E dom \in ViewDom(t.editor) :
       LET fr == performCalculation([frames |-> frames,
                                     rafIdRef |-> rafIdRef], dom)
       IN  frames' = fr.frames /\ rafIdRef' = fr.rafIdRef
  /\ UNCHANGED <<viewVars, calcVars, lifecycle, debounceTimerRef, pagination, signals,
                 manualCalls, bursts, passes, publications, settledApart,
                 cancelled>>

\* slip: the pass appends a page-break rule to the document it measured
FrameFires_InsertsBreak(f) ==
  /\ f \in frames
  /\ frames' = frames \ {f}
  /\ LET mounted == lifecycle = "attached"
         el == IF mounted THEN editorElement ELSE Detached(editorElement)
         res == calculatePagination(el, CONTENT_HEIGHT_PX)
     IN  /\ blocks' = MeasuredBy(el)
         /\ placed' = ScanOf(el, CONTENT_HEIGHT_PX).placed
         /\ result' = res
         /\ pagination' = setPagination(pagination, res, mounted)
         /\ publications' = IF mounted THEN publications + 1 ELSE publications
         /\ editorElement' =
              IF res.totalPages > 1
              THEN [editorElement EXCEPT
                      !.nodes = <<[h |-> 0, cells |-> <<>>,
                                   style |-> VisibleStyle]>> \o @]
              ELSE editorElement
  /\ passes' = passes + 1
  /\ UNCHANGED <<viewVars, contentHeightPerPage, pc, lifecycle, debounceTimerRef,
                 rafIdRef, timers, signals, manualCalls, bursts, settledApart,
                 cancelled>>

\* the frame callback f runs: calculatePagination(editor.view.dom), then
\* setPagination(result)
FrameFires(f) ==
  /\ f \in frames
  /\ frames' = frames \ {f}
  /\ LET mounted == lifecycle = "attached"
         el == IF mounted THEN editorElement ELSE Detached(editorElement)
         res == calculatePagination(el, CONTENT_HEIGHT_PX)
     IN  /\ blocks' = MeasuredBy(el)
         /\ placed' = ScanOf(el, CONTENT_HEIGHT_PX).placed
         /\ result' = res
         /\ pagination' = setPagination(pagination, res, mounted)
         /\ publications' = IF mounted THEN publications + 1 ELSE publications
  /\ passes' = passes + 1
  /\ UNCHANGED <<viewVars, editorElement, contentHeightPerPage, pc, lifecycle,
                 debounceTimerRef, rafIdRef, timers, signals, manualCalls,
                 bursts, settledApart, cancelled>>

\* slip: the cleanup does not cancel the frame request
Cleanup_KeepsFrame(tm, fr) ==
  [timers |-> IF tm.debounceTimerRef # Null
              THEN clearTimeout(tm.timers, tm.debounceTimerRef)
              ELSE tm.timers,
   frames |-> fr.frames]

\* the cleanup's "Cleanup timers" part
Cleanup(tm, fr) ==
  [timers |-> IF tm.debounceTimerRef # Null
              THEN clearTimeout(tm.timers, tm.debounceTimerRef)
              ELSE tm.timers,
   frames |-> IF fr.rafIdRef # Null
              THEN cancelAnimationFrame(fr.frames, fr.rafIdRef)
              ELSE fr.frames]

\* the component unmounts: the effect's cleanup removes the listeners and
\* cancels what the refs hold; the editor is destroyed
Teardown ==
  /\ lifecycle = "attached"
  /\ lifecycle' = "torndown"
  /\ LET left == Cleanup([timers |-> timers,
                          debounceTimerRef |-> debounceTimerRef],
                         [frames |-> frames, rafIdRef |-> rafIdRef])
     IN  /\ timers' = left.timers
         /\ frames' = left.frames
  /\ cancelled' = [timers |-> Cardinality(timers), frames |-> Cardinality(frames)]
  /\ UNCHANGED <<viewVars, calcVars, debounceTimerRef, rafIdRef, pagination, signals,
                 manualCalls, bursts, passes, publications, settledApart>>

SchedNext ==
  \/ \E nodes \in SchedDocs : Attach(nodes)
  \/ \E nodes \in SchedDocs : EditorUpdate(nodes)
  \/ WindowResize
  \/ ManualRecalculate
  \/ \E t \in timers : TimerFires(t)
  \/ \E f \in frames : FrameFires(f)
  \/ Teardown

SchedSpec == SchedInit /\ [][SchedNext]_vars

\* the steps of FrameFires, by what they do to the host's frame queue: a
\* requested frame leaves the queue and one more pass has run
FrameRuns == \E f \in frames : frames' = frames \ {f} /\ passes' = passes + 1

\* the host runs every timer that is due and every requested frame (a
\* pending frame can always run, so fairness is stated on FrameRuns)
FairSchedSpec ==
  /\ SchedSpec
  /\ WF_vars(\E t \in timers : TimerFires(t))
  /\ WF_<<frames, passes>>(FrameRuns)

\* no debounce timer and no frame request is pending
Idle == timers = {} /\ frames = {}

\* what a pass over the document now rendered publishes
CurrentPagination == calculatePagination(editorElement, CONTENT_HEIGHT_PX)

----------------------------------------------------------------------------
(* The PaginatedEditor component: it renders one page background per       *)
(* published page and highlights the page of index activePageIndex, which  *)
(* the selectionUpdate handler sets.  The editor's content floats over     *)
(* the pages as one continuous column.                                     *)

\* a paragraph u units tall
Paragraph(u) == [h |-> u * HeightUnit, cells |-> <<>>, style |-> VisibleStyle]

\* the documents the paginated editor shows in turn: one short paragraph,
\* three short paragraphs (three pages), two paragraphs (two pages), a
\* paragraph taller than a page alone and followed by two short paragraphs
ViewDocs ==
  { << Paragraph(1) >>,
    << Paragraph(1), Paragraph(1), Paragraph(1) >>,
    << Paragraph(2), Paragraph(1) >>,
    << Paragraph(2), Paragraph(2) >>,
    << Paragraph(TallUnits) >>,
    << Paragraph(TallUnits), Paragraph(1), Paragraph(1) >> }

\* the content offsets the top of the caret can have: the tops of the lines
\* of the blocks, one line per unit of height
CaretOffsets(el) ==
  LET bs == measureBlocks(el)
  IN  UNION { { bs[i].offsetTop + k * HeightUnit :
                  k \in {j \in 0..TallUnits : (j + 1) * HeightUnit <= bs[i].height} }
              : i \in 1..Len(bs) }

\* coords.top - containerRect.top + containerRef.current.scrollTop for a
\* caret at content offset y: the container's padding and the top of the
\* content layer come before the content
relativeY(y) == PAGE_GAP_PX + PAGE_MARGIN_PX + y

\* Math.floor(relativeY / (PAGE_HEIGHT_PX + PAGE_GAP_PX))
pageIndex(y) == relativeY(y) \div (PAGE_HEIGHT_PX + PAGE_GAP_PX)

\* slip: the page is looked up by content offset among the published pages
handleSelectionUpdate_ByOffset(y, published) ==
  getPageAtOffset(y, published.pages) - 1

\* the index handleSelectionUpdate passes to setActivePageIndex; published
\* is the pagination of the render the handler was subscribed in
handleSelectionUpdate(y, published) ==
  Max(0, Min(pageIndex(y), published.totalPages - 1))

\* the page the render marks isActive, 0 when no page is
ActivePage ==
  IF activePageIndex + 1 \in 1..Len(pagination.pages)
  THEN pagination.pages[activePageIndex + 1].pageNumber
  ELSE 0

ViewInit ==
  /\ editorElement = NullElement
  /\ contentHeightPerPage = CONTENT_HEIGHT_PX
  /\ pc = "view"
  /\ blocks = <<>>
  /\ placed = <<>>
  /\ result = NoResult
  /\ HookInit
  /\ ViewerInit

\* the editor exists: the effect subscribes handleSelectionUpdate
EditorReady(nodes) ==
  /\ pc = "view"
  /\ lifecycle = "unattached"
  /\ lifecycle' = "attached"
  /\ editorElement' = Surface(nodes)
  /\ UNCHANGED <<viewVars, contentHeightPerPage, pc, blocks, placed, result,
                 debounceTimerRef, rafIdRef, timers, frames, pagination,
                 signals, manualCalls, bursts, passes, publications,
                 settledApart, cancelled>>

\* the selection moves to a line of the document (a click, an arrow key)
SelectionUpdate ==
  /\ pc = "view"
  /\ lifecycle = "attached"
  /\ \E y \in CaretOffsets(editorElement) :
       /\ caretOffset' = y
       /\ activePageIndex' = handleSelectionUpdate(y, pagination)
  /\ UNCHANGED <<calcVars, hookVars>>

\* a transaction that changes the document and moves the selection: the
\* handler runs on the new document
Edit(nodes, y) ==
  /\ pc = "view"
  /\ lifecycle = "attached"
  /\ nodes # editorElement.nodes
  /\ editorElement' = Surface(nodes)
  /\ y \in CaretOffsets(Surface(nodes))
  /\ caretOffset' = y
  /\ activePageIndex' = handleSelectionUpdate(y, pagination)
  /\ UNCHANGED <<contentHeightPerPage, pc, blocks, placed, result, hookVars>>

\* a transaction that changes the document after the caret and leaves the
\* selection as it is (a forward delete, a change made by a command): no
\* selectionUpdate is emitted
EditKeepsSelection(nodes) ==
  /\ pc = "view"
  /\ lifecycle = "attached"
  /\ nodes # editorElement.nodes
  /\ caretOffset \in CaretOffsets(Surface(nodes))
  /\ editorElement' = Surface(nodes)
  /\ UNCHANGED <<viewVars, contentHeightPerPage, pc, blocks, placed, result,
                 hookVars>>

\* the hook publishes the pagination of the document now rendered; the
\* component renders again and the effect subscribes the handler again
Publish ==
  /\ pc = "view"
  /\ lifecycle = "attached"
  /\ pagination # CurrentPagination
  /\ pagination' = CurrentPagination
  /\ UNCHANGED <<viewVars, calcVars, lifecycle, debounceTimerRef, rafIdRef,
                 timers, frames, signals, manualCalls, bursts, passes,
                 publications, settledApart, cancelled>>

ViewNext ==
  \/ \E nodes \in ViewDocs : EditorReady(nodes)
  \/ SelectionUpdate
  \/ \E nodes \in ViewDocs : \E y \in CaretOffsets(Surface(nodes)) : Edit(nodes, y)
  \/ \E nodes \in ViewDocs : EditKeepsSelection(nodes)
  \/ Publish

ViewSpec == ViewInit /\ [][ViewNext]_vars

\* a step in which handleSelectionUpdate ran
HandlerRan ==
  \/ SelectionUpdate
  \/ \E nodes \in ViewDocs : \E y \in CaretOffsets(Surface(nodes)) : Edit(nodes, y)

----------------------------------------------------------------------------
(* Vocabulary of the properties *)

Returned == pc = "returned"

\* the call went past both early returns and scanned the measured blocks
Scanned == Returned /\ ~ReturnsEarly(editorElement)

\* the block sequence of the surface handed to the call
SurfaceBlocks ==
  IF editorElement.present THEN measureBlocks(editorElement) ELSE <<>>

PageNumbers == 1..Len(result.pages)

\* the measured blocks that were added while page p was current
BlocksOn(p) == {k \in 1..Len(placed) : placed[k] = p}

RECURSIVE SumHeights(_, _)
SumHeights(bs, S) ==
  IF S = {} THEN 0
  ELSE LET k == CHOOSE x \in S : TRUE
       IN  bs[k].height + SumHeights(bs, S \ {k})

RECURSIVE SumContentHeight(_)
SumContentHeight(pages) ==
  IF pages = <<>> THEN 0
  ELSE Head(pages).contentHeight + SumContentHeight(Tail(pages))

\* accumulatedHeight when the loop reaches block k (k >= 2)
AccBefore(k) == SumHeights(blocks, {j \in 1..(k - 1) : placed[j] = placed[k - 1]})

\* the single empty page result, written out
OneEmptyPage ==
  [pages |-> <<[pageNumber |-> 1, startOffset |-> 0, endOffset |-> 0,
                contentHeight |-> 0]>>,
   totalPages |-> 1, totalContentHeight |-> 0]

----------------------------------------------------------------------------
(* C1: every result has at least one page, totalPages is the number of     *)
(* pages, and the i-th page has pageNumber i.                              *)
C1_PagesNumbered ==
  Returned =>
    /\ Len(result.pages) >= 1
    /\ result.totalPages = Len(result.pages)
    /\ \A i \in PageNumbers : result.pages[i].pageNumber = i

C1_Witness ==
  Returned /\ contentHeightPerPage = CONTENT_HEIGHT_PX /\ result.totalPages >= 3

(* C2: page 1 starts at 0, each later page starts where the page before    *)
(* ends, and the last page ends at totalContentHeight.                     *)
C2_OffsetsChain ==
  Returned =>
    /\ result.pages[1].startOffset = 0
    /\ \A i \in PageNumbers \ {1} :
         result.pages[i].startOffset = result.pages[i - 1].endOffset
    /\ result.pages[Len(result.pages)].endOffset = result.totalContentHeight

C2_Witness ==
  /\ Returned
  /\ result.totalPages >= 2
  /\ result.pages[2].startOffset > 0
  /\ result.totalContentHeight
       > result.pages[Len(result.pages)].startOffset
           + result.pages[Len(result.pages)].contentHeight

(* C3: every measured block is on exactly one page, pages follow the input *)
(* order, each page's contentHeight is the sum of the heights of its       *)
(* blocks, and the contentHeights sum to the heights of all measured       *)
(* blocks.                                                                 *)
C3_BlocksPartitioned ==
  Returned =>
    /\ Len(placed) = Len(blocks)
    /\ \A k \in 1..Len(placed) : placed[k] \in PageNumbers
    /\ \A j, k \in 1..Len(placed) : j < k => placed[j] <= placed[k]
    /\ \A p \in PageNumbers :
         result.pages[p].contentHeight = SumHeights(blocks, BlocksOn(p))
    /\ SumContentHeight(result.pages) = SumHeights(blocks, 1..Len(blocks))

C3_Witness ==
  /\ Returned
  /\ result.totalPages >= 2
  /\ \E p \in PageNumbers : Cardinality(BlocksOn(p)) >= 2

(* C4: a page is closed before a block only when accumulated + height is   *)
(* strictly greater than the usable height; a block that lands exactly on  *)
(* the usable height stays on the current page; blocks whose heights sum   *)
(* to at most the usable height give exactly one page.                     *)
C4_StrictTieBreak ==
  Returned =>
    /\ \A k \in 2..Len(placed) :
         placed[k] # placed[k - 1]
           => AccBefore(k) + blocks[k].height > contentHeightPerPage
    /\ \A k \in 2..Len(placed) :
         AccBefore(k) + blocks[k].height = contentHeightPerPage
           => placed[k] = placed[k - 1]
    /\ Len(placed) >= 1 => placed[1] = 1
    /\ LET given == SurfaceBlocks
       IN  SumHeights(given, 1..Len(given)) <= contentHeightPerPage
             => result.totalPages = 1

C4_Witness ==
  /\ Returned
  /\ \E k \in 2..Len(placed) :
       /\ blocks[k].height > 0
       /\ AccBefore(k) > 0
       /\ AccBefore(k) + blocks[k].height = contentHeightPerPage
       /\ placed[k] = placed[k - 1]

(* C5 as stated, for the usable height the editor passes: for every        *)
(* non-empty block sequence every page of the result holds at least one    *)
(* block, and only page 1 of an empty-input result may hold none.          *)
C5_Original ==
  (Returned /\ contentHeightPerPage = CONTENT_HEIGHT_PX) =>
    /\ Len(SurfaceBlocks) > 0 => \A p \in PageNumbers : BlocksOn(p) # {}
    /\ \A p \in PageNumbers \ {1} : BlocksOn(p) # {}

(* C5 amended: when the surface is present, its total content height is    *)
(* greater than 0 and its block sequence is non-empty, every page holds at *)
(* least one block; in every result only page 1 may hold no block.         *)
C5_NoPrematureBreak ==
  Returned =>
    /\ (Len(SurfaceBlocks) > 0 /\ ~ReturnsEarly(editorElement))
         => \A p \in PageNumbers : BlocksOn(p) # {}
    /\ \A p \in PageNumbers \ {1} : BlocksOn(p) # {}

C5_Witness ==
  /\ Scanned
  /\ contentHeightPerPage > 0
  /\ result.totalPages >= 2
  /\ blocks[1].height = 0
  /\ \E k \in 1..Len(blocks) : blocks[k].height > contentHeightPerPage

(* C6 as stated, for the usable height the editor passes: a block taller   *)
(* than the usable height is on a page that holds no other block, whose    *)
(* contentHeight is the block's height, with no empty page before it.      *)
C6_Original ==
  (Returned /\ contentHeightPerPage = CONTENT_HEIGHT_PX) =>
    LET given == SurfaceBlocks
    IN  \A k \in 1..Len(given) :
      given[k].height > contentHeightPerPage =>
        /\ k \in 1..Len(placed)
        /\ BlocksOn(placed[k]) = {k}
        /\ result.pages[placed[k]].contentHeight = given[k].height
        /\ \A p \in 1..(placed[k] - 1) :
             BlocksOn(p) # {} /\ result.pages[p].contentHeight > 0

(* C6 amended: a block of positive height taller than the usable height is *)
(* on a page whose other blocks all have height 0, that page's             *)
(* contentHeight is the block's height, and every page before it holds a   *)
(* block and has positive contentHeight.                                   *)
C6_OversizedBlock ==
  Returned =>
    LET given == SurfaceBlocks
    IN  \A k \in 1..Len(given) :
      (given[k].height > contentHeightPerPage /\ given[k].height > 0) =>
        /\ k \in 1..Len(placed)
        /\ \A j \in BlocksOn(placed[k]) \ {k} : given[j].height = 0
        /\ result.pages[placed[k]].contentHeight = given[k].height
        /\ \A p \in 1..(placed[k] - 1) :
             BlocksOn(p) # {} /\ result.pages[p].contentHeight > 0

C6_Witness ==
  /\ Scanned
  /\ contentHeightPerPage > 0
  /\ \E k \in 2..(Len(blocks) - 1) :
       /\ blocks[k].height > contentHeightPerPage
       /\ blocks[k - 1].height = 0
       /\ placed[k - 1] = placed[k]
       /\ placed[k] > 1
       /\ placed[k + 1] = placed[k] + 1

(* C7, for the usable height the editor passes: the endOffset of every     *)
(* page but the last is the top edge of a measured block and lies strictly *)
(* inside the extent (offsetTop, offsetTop + height) of no block that      *)
(* measureBlocks returned for the surface.                                 *)
C7_BreaksAtBlockBoundaries ==
  (Returned /\ contentHeightPerPage = CONTENT_HEIGHT_PX) =>
    \A p \in PageNumbers \ {Len(result.pages)} :
      /\ \E k \in 1..Len(blocks) :
           blocks[k].offsetTop = result.pages[p].endOffset
      /\ \A k \in 1..Len(blocks) :
           ~ /\ blocks[k].offsetTop < result.pages[p].endOffset
             /\ result.pages[p].endOffset
                  < blocks[k].offsetTop + blocks[k].height

(* C8: an absent surface or a total content height <= 0 gives exactly the  *)
(* single empty page: number 1, offsets 0, contentHeight 0, totalPages 1,  *)
(* totalContentHeight 0.                                                   *)
C8_EmptyResult ==
  (Returned /\ (~editorElement.present \/ scrollHeight(editorElement) <= 0))
    => result = OneEmptyPage

C8_Witness ==
  /\ Returned
  /\ editorElement.present
  /\ editorElement.nodes # <<>>
  /\ scrollHeight(editorElement) <= 0
  /\ result.totalPages = 1

(* C9, for the usable height the editor passes: every page of a result     *)
(* computed from a rendered surface has endOffset >= startOffset.          *)
C9_EndNotBeforeStart ==
  (Returned /\ contentHeightPerPage = CONTENT_HEIGHT_PX) =>
    \A p \in PageNumbers :
      result.pages[p].endOffset >= result.pages[p].startOffset

(* C10: for every rendered surface measureBlocks returns the blocks in     *)
(* document order, each with height >= 0, and offsetTop never decreases    *)
(* along the returned sequence.                                            *)
C10_MeasuredMonotone ==
  editorElement.present =>
    LET measured == measureBlocks(editorElement)
    IN  /\ \A k \in 1..Len(measured) :
             measured[k].element = k /\ measured[k].height >= 0
        /\ \A j, k \in 1..Len(measured) :
             j < k => measured[j].offsetTop <= measured[k].offsetTop

(* C11: an element hidden by styling (display: none or visibility: hidden)  *)
(* is no entry of the sequence measureBlocks returns, and the              *)
(* contentHeights of a result sum to the heights of the visible measured   *)
(* elements only.                                                          *)
C11_HiddenNotMeasured ==
  editorElement.present =>
    LET elements == querySelectorAll(editorElement)
        measured == measureBlocks(editorElement)
    IN  /\ \A k \in 1..Len(measured) :
             isElementVisible(elements[measured[k].element])
        /\ (Returned /\ contentHeightPerPage = CONTENT_HEIGHT_PX) =>
             SumContentHeight(result.pages)
               = SumHeights(blocks, {k \in 1..Len(blocks) :
                                       isElementVisible(elements[k])})

(* C12: measureBlocks returns one entry per direct top-level block of the  *)
(* surface and none for a block nested in a list, blockquote or table, so  *)
(* the measured heights sum to the heights of the top-level blocks.        *)
C12_TopLevelOnly ==
  editorElement.present =>
    LET elements == querySelectorAll(editorElement)
        measured == measureBlocks(editorElement)
        nodes == editorElement.nodes
    IN  /\ \A k \in 1..Len(measured) : ~elements[measured[k].element].nested
        /\ Len(measured) = Len(nodes)
        /\ SumHeights(measured, 1..Len(measured))
             = SumSeq([i \in 1..Len(nodes) |-> NodeHeight(nodes[i])])

\* the offsets at which the answer of getPageAtOffset can change
ProbeOffsets ==
  UNION {{result.pages[p].startOffset - 1, result.pages[p].startOffset,
          result.pages[p].endOffset - 1, result.pages[p].endOffset} :
           p \in PageNumbers}
    \cup {-1, 0, result.totalContentHeight - 1, result.totalContentHeight}

PagesHolding(offset) ==
  {p \in PageNumbers : /\ offset >= result.pages[p].startOffset
                       /\ offset < result.pages[p].endOffset}

(* C13, for the usable height the editor passes: for every offset          *)
(* getPageAtOffset returns a number in 1..totalPages, the number of the    *)
(* page whose [startOffset, endOffset) holds the offset and the last       *)
(* page's number when none does; every offset in [0, totalContentHeight)   *)
(* is held by exactly one page.                                            *)
C13_OffsetOnOnePage ==
  (Returned /\ contentHeightPerPage = CONTENT_HEIGHT_PX) =>
    \A offset \in ProbeOffsets :
      LET holding == PagesHolding(offset)
          page == getPageAtOffset(offset, result.pages)
      IN  /\ page \in 1..result.totalPages
          /\ holding # {} => page \in holding
          /\ holding = {} => page = result.pages[Len(result.pages)].pageNumber
          /\ (0 <= offset /\ offset < result.totalContentHeight)
               => Cardinality(holding) = 1

C15_EventuallySettles ==
  (<>[](lifecycle = "attached"))
    => <>[](Idle /\ pagination = CurrentPagination)

C15_Witness ==
  /\ lifecycle = "attached"
  /\ Idle
  /\ ~settledApart
  /\ signals >= 2
  /\ pagination = CurrentPagination
  /\ pagination.totalPages >= 2

(* C16: attaching requests exactly one frame at once, arms no timer and    *)
(* measures nothing itself; while no signal and no manual call has         *)
(* arrived, that frame is pending or it ran the only pass and its result   *)
(* is published.                                                           *)
C16_ImmediateOnAttach ==
  /\ [][(\E nodes \in SchedDocs : Attach(nodes)) =>
          /\ Cardinality(frames') = 1
          /\ rafIdRef' \in frames'
          /\ timers' = timers
          /\ passes' = passes]_vars
  /\ []((lifecycle = "attached" /\ signals = 0 /\ manualCalls = 0) =>
          /\ Cardinality(frames) + passes = 1
          /\ frames = {} => (publications = 1 /\ pagination = CurrentPagination))

C16_Witness ==
  /\ lifecycle = "attached"
  /\ signals = 0
  /\ manualCalls = 0
  /\ timers = {}
  /\ frames = {}
  /\ publications = 1
  /\ pagination.totalPages >= 2

(* C17: teardown, from whatever state, leaves no timer and no frame        *)
(* request pending and the listeners unsubscribed.                         *)
C17_TeardownCancels ==
  [][Teardown => (timers' = {} /\ frames' = {} /\ lifecycle' # "attached")]_vars

C17_Witness ==
  /\ lifecycle = "torndown"
  /\ cancelled = [timers |-> 1, frames |-> 1]
  /\ manualCalls = 0
  /\ Idle

(* C18: after teardown no step publishes a result or runs a measurement    *)
(* pass, whether a timer or frame callback fires or the consumer calls     *)
(* recalculate.                                                            *)
C18_SilentAfterTeardown ==
  [][lifecycle = "torndown" =>
       (pagination' = pagination /\ passes' = passes)]_vars

C20_PublishedComplete ==
  /\ [](\/ pagination = OneEmptyPage
        \/ \E nodes \in SchedDocs :
             pagination = calculatePagination(Surface(nodes), CONTENT_HEIGHT_PX))
  /\ [][pagination' # pagination => pagination' = result']_vars

C20_Witness ==
  /\ lifecycle = "attached"
  /\ pagination # OneEmptyPage
  /\ pagination.totalPages = 3
  /\ pagination = result

(* C21: apart from the initial computation (the first pass), no result is  *)
(* published while a debounce timer is armed.                              *)
C21_NoPublicationWhileArmed ==
  [][(publications' # publications /\ passes > 0) => timers = {}]_vars

C23_SignalCancelsFrame ==
  [][(signals' = signals + 1 /\ passes > 0 /\ frames # {})
       => (frames' = {} /\ Cardinality(timers') = 1)]_vars

(* C24: a call of the returned recalculate on an attached hook cancels the *)
(* debounce timer and the frame request that were pending when it was      *)
(* made: neither is pending after the call.                                *)
C24_ManualCancelsPending ==
  [][(ManualRecalculate /\ lifecycle = "attached")
       => /\ frames' \cap frames = {}
          /\ TimerIds(timers') \cap TimerIds(timers) = {}]_vars

(* C25 as stated: for a usable height <= 0, when every block of the        *)
(* surface has positive height, each page holds exactly one block and      *)
(* totalPages is the number of blocks.                                     *)
C25_Original ==
  (Returned /\ contentHeightPerPage <= 0) =>
    LET given == SurfaceBlocks
    IN  (\A k \in 1..Len(given) : given[k].height > 0) =>
          /\ result.totalPages = Len(given)
          /\ \A p \in PageNumbers : Cardinality(BlocksOn(p)) = 1

(* C25 amended: for a usable height <= 0 the call returns, and when the    *)
(* block sequence is non-empty and every block has positive height, a page *)
(* is closed at every block after the first: block k is alone on page k    *)
(* and totalPages is the number of blocks.                                 *)
C25_OneBlockPerPage ==
  (Returned /\ contentHeightPerPage <= 0) =>
    LET given == SurfaceBlocks
    IN  (Len(given) > 0 /\ \A k \in 1..Len(given) : given[k].height > 0) =>
          /\ result.totalPages = Len(given)
          /\ Len(placed) = Len(given)
          /\ \A k \in 1..Len(given) : placed[k] = k
          /\ \A p \in PageNumbers : BlocksOn(p) = {p}

C25_Witness ==
  /\ Scanned
  /\ contentHeightPerPage < 0
  /\ Len(blocks) >= 3
  /\ \A k \in 1..Len(blocks) : blocks[k].height > 0
  /\ result.totalPages = Len(blocks)

\* the last measured block that was added while page p was current
LastBlockOn(p) == CHOOSE k \in BlocksOn(p) : \A j \in BlocksOn(p) : j <= k

\* the first measured block that was added while page p was current
FirstBlockOn(p) == CHOOSE k \in BlocksOn(p) : \A j \in BlocksOn(p) : k <= j

\* page p is over the usable height because of one single block
SingleTallBlock(p) ==
  /\ BlocksOn(p) # {}
  /\ LET k == LastBlockOn(p)
     IN  /\ blocks[k].height > contentHeightPerPage
         /\ \A j \in BlocksOn(p) \ {k} : blocks[j].height = 0
         /\ result.pages[p].contentHeight = blocks[k].height

(* C27, as stated: in every result, a page whose contentHeight exceeds the *)
(* usable height per page holds one single block taller than the usable    *)
(* height, which is the last block of the page, its other blocks have      *)
(* height 0 and its contentHeight is that block's height.                  *)
C27_Original ==
  Returned =>
    \A p \in PageNumbers :
      result.pages[p].contentHeight > contentHeightPerPage => SingleTallBlock(p)

(* C27, amended: the same for every page that holds at least one block; a  *)
(* page that holds no block has contentHeight 0, which exceeds a negative  *)
(* usable height with no block on the page.                                *)
C27_OverflowIsOneBlock ==
  Returned =>
    \A p \in PageNumbers :
      /\ (BlocksOn(p) # {}
            /\ result.pages[p].contentHeight > contentHeightPerPage)
           => SingleTallBlock(p)
      /\ BlocksOn(p) = {} => result.pages[p].contentHeight = 0
      /\ ~SingleTallBlock(p) /\ BlocksOn(p) # {}
           => result.pages[p].contentHeight <= contentHeightPerPage

C27_Witness ==
  /\ Scanned /\ contentHeightPerPage = CONTENT_HEIGHT_PX
  /\ result.totalPages >= 2
  /\ \E p \in PageNumbers :
       /\ result.pages[p].contentHeight > contentHeightPerPage
       /\ SingleTallBlock(p)
  /\ \E p \in PageNumbers :
       /\ Cardinality(BlocksOn(p)) >= 2
       /\ result.pages[p].contentHeight <= contentHeightPerPage

(* C28: the packing is greedy-maximal: the contentHeight of every page     *)
(* that is not the last, plus the height of the first block of the page    *)
(* after it, is strictly greater than the usable height per page.          *)
C28_GreedyMaximal ==
  Scanned =>
    \A p \in PageNumbers \ {Len(result.pages)} :
      /\ BlocksOn(p + 1) # {}
      /\ result.pages[p].contentHeight + blocks[FirstBlockOn(p + 1)].height
           > contentHeightPerPage

C28_Witness ==
  /\ Scanned /\ contentHeightPerPage = CONTENT_HEIGHT_PX
  /\ result.totalPages >= 2
  /\ Cardinality(BlocksOn(1)) >= 2
  /\ result.pages[1].contentHeight <= contentHeightPerPage
  /\ result.pages[1].contentHeight + blocks[FirstBlockOn(2)].height
       > contentHeightPerPage

(* C30: in every reachable state of the scheduler at most one debounce     *)
(* timer is armed and at most one frame request is outstanding; the armed  *)
(* timer and the outstanding request are the ones the refs name.           *)
C30_AtMostOnePending ==
  /\ Cardinality(timers) <= 1
  /\ Cardinality(frames) <= 1
  /\ TimerIds(timers) \subseteq {debounceTimerRef}
  /\ frames \subseteq {rafIdRef}

C30_Witness ==
  /\ lifecycle = "attached" /\ passes >= 1 /\ signals >= 2
  /\ Cardinality(timers) = 1 /\ Cardinality(frames) = 1
  /\ TimerIds(timers) = {debounceTimerRef} /\ frames = {rafIdRef}

(* C26, as stated: the page highlighted as active for a caret at content   *)
(* offset y is the page getPageAtOffset(y, pages) returns for the          *)
(* published pages (here: when the published pages are the pagination of   *)
(* the document the caret is in).                                          *)
C26_Original ==
  [][(SelectionUpdate /\ pagination = CurrentPagination)
       => ActivePage' = getPageAtOffset(caretOffset', pagination.pages)]_vars

(* C26, amended: the page highlighted as active is the page background     *)
(* whose slot of PAGE_HEIGHT_PX + PAGE_GAP_PX pixels holds the caret's y   *)
(* in the container, or the last rendered page when the caret is below     *)
(* every slot.                                                             *)
C26_ActiveIsPageSlot ==
  [][HandlerRan =>
       LET i == activePageIndex'
           y == relativeY(caretOffset')
           slot == PAGE_HEIGHT_PX + PAGE_GAP_PX
       IN  /\ i \in 0..(pagination'.totalPages - 1)
           /\ i * slot <= y
           /\ y < (i + 1) * slot \/ i = pagination'.totalPages - 1]_vars

C26_Witness ==
  /\ pc = "view" /\ lifecycle = "attached"
  /\ pagination = CurrentPagination /\ pagination.totalPages >= 3
  /\ caretOffset \in CaretOffsets(editorElement)
  /\ activePageIndex = handleSelectionUpdate(caretOffset, pagination)
  /\ activePageIndex >= 1
  /\ ActivePage # getPageAtOffset(caretOffset, pagination.pages)

(* C29: in every reachable state of the paginated editor the active page   *)
(* index is at least 0 and at most totalPages - 1, so one rendered page    *)
(* is highlighted.                                                         *)
C29_ActiveIndexInRange ==
  pc = "view" =>
    /\ 0 <= activePageIndex
    /\ activePageIndex <= pagination.totalPages - 1
    /\ ActivePage # 0

====
